---------------------------- MODULE Spec2Model ----------------------------
(***************************************************************************)
(* The task store of the Eisenhower matrix (hooks/useTodos.ts): the        *)
(* collection `todos` held by useState and the updater functions that      *)
(* addTodo, updateTodo, deleteTodo, toggleTodo and reorderTodo hand to     *)
(* setTodos.  Array indices are JavaScript's (0-based) in every argument   *)
(* and in every `order` value; sequences are TLA+'s (1-based).             *)
(***************************************************************************)
EXTENDS Integers, Sequences, FiniteSets, TLC

(* Bounds of the model: the ids handed out, the tasks held at a time     *)
(* when every call the hook admits is made, and the last reading of the  *)
(* clock.                                                                 *)
MaxTodos == 3
MaxApiTodos == 2
MaxTime == 1

(* Bounds of the daily tracking: the last day the tracker is used on and *)
(* the last day of the progress records the dashboard is shown.           *)
LastTrackedDay == 2
MaxDay == 6

(* TodoPriority, the four quadrants. *)
Priorities ==
    {"urgent-important", "urgent-unimportant",
     "unurgent-important", "unurgent-unimportant"}

(* Ids that crypto.randomUUID() can hand out, in the order it does. *)
Ids == 1..MaxTodos

(* Form values that reach addTodo: TodoForm's description defaults to "", *)
(* isDaily to false and subTasks to []; the form empties subTasks when    *)
(* isDaily is off.                                                        *)
Drafts ==
    [title : {"t1"}, description : {""}, priority : Priorities,
     isDaily : {FALSE}, subTasks : {<<>>}]
        \cup [title : {"t1"}, description : {""}, priority : Priorities,
              isDaily : {TRUE},
              subTasks : {<<>>, <<[id |-> "a", title |-> "a"], [id |-> "b", title |-> "b"]>>}]

(* What TodoItem's handleSave passes to updateTodo when the edit form is  *)
(* saved as it was opened.                                                *)
SavedPatches == {[title |-> "t1", description |-> ""]}

(* Partial<Todo> values that move a task: the type admits them.           *)
PlacementPatches == {[priority |-> q] : q \in Priorities}

(* Every Partial<Todo> value the properties try updateTodo with.          *)
Patches ==
    SavedPatches \cup PlacementPatches
        \cup {[title |-> "t2", description |-> "d2"], [order |-> 0],
              [isCompleted |-> TRUE]}

VARIABLES
    todos,   \* the useState collection, newest first
    now,     \* the latest reading of Date.now()
    uuids,   \* how many ids crypto.randomUUID() has handed out
    moved,   \* whether updateTodo has been passed a priority or an order
    today,   \* the calendar day of startOfDay(new Date()), counted in days
    trackingTodo,  \* the view's useState task shown in the tracker modal
    stats,   \* the aggregates last rendered by the dashboard
    stored,  \* the item of localStorage under STORAGE_KEY
    held,    \* the kind of value useState holds: todos has its elements
    isLoaded,    \* the snapshot useSyncExternalStore gives
    effectDeps,  \* [todos, isLoaded] as the sync effect last ran with them
    walk     \* the locals of calculateCurrentStreak while it runs

vars == <<todos, now, uuids, moved, today, trackingTodo, stats, stored, held, isLoaded, effectDeps, walk>>

(* The persistence of the hook and the run of the streak walk. *)
persistence == <<stored, held, isLoaded, effectDeps>>

(* localStorage.getItem(STORAGE_KEY) === null *)
NoItem == [kind |-> "none"]

(* The sync effect has not run yet. *)
NoDeps == [ran |-> FALSE]

(* calculateCurrentStreak is not running. *)
NoWalk == [pc |-> "idle"]

(* The view's state apart from the hook's. *)
view == <<today, trackingTodo, stats>>

(* useState<Todo | null>(null) *)
NoTodo == [id |-> 0]

(* The dashboard before it is rendered. *)
NoStats == [rendered |-> FALSE]

Min(a, b) == IF a < b THEN a ELSE b

Max(a, b) == IF a > b THEN a ELSE b

(* t.order || 0 *)
OrderOrZero(t) == IF "order" \in DOMAIN t THEN t.order ELSE 0

(* prev.filter(t => t.priority === priority) *)
FilterPriority(s, priority) == SelectSeq(s, LAMBDA t : t.priority = priority)

(* One step of the stable sort: t goes after every element whose key is  *)
(* not greater than its own.                                              *)
RECURSIVE InsertSorted(_, _)
InsertSorted(t, s) ==
    IF s = <<>> THEN <<t>>
    ELSE IF OrderOrZero(s[Len(s)]) <= OrderOrZero(t) THEN Append(s, t)
    ELSE Append(InsertSorted(t, SubSeq(s, 1, Len(s) - 1)), s[Len(s)])

(* .sort((a, b) => (a.order || 0) - (b.order || 0)), a stable sort *)
RECURSIVE SortByOrder(_)
SortByOrder(s) ==
    IF s = <<>> THEN <<>>
    ELSE InsertSorted(s[Len(s)], SortByOrder(SubSeq(s, 1, Len(s) - 1)))

(* The order-sorted list of one quadrant. *)
QuadrantList(s, priority) == SortByOrder(FilterPriority(s, priority))

getTodosByPriority(priority) == QuadrantList(todos, priority)

(* Array.prototype.splice's reading of its start argument. *)
RelativeStart(len, start) ==
    IF start < 0 THEN Max(len + start, 0) ELSE Min(start, len)

(* splice that removes the element after the one at start. *)
SpliceDelete_Next(list, start) ==
    LET k == IF start < 0 THEN Max(Len(list) + start, 0) ELSE Min(start, Len(list))
    IN  SubSeq(list, 1, k + 1) \o SubSeq(list, k + 3, Len(list))

(* list.splice(start, 1) *)
SpliceDelete(list, start) ==
    LET k == RelativeStart(Len(list), start)
    IN  SubSeq(list, 1, k) \o SubSeq(list, k + 2, Len(list))

(* splice that ignores its start argument and appends. *)
SpliceInsert_Append(list, start, item) == Append(list, item)

(* list.splice(start, 0, item) *)
SpliceInsert(list, start, item) ==
    LET k == RelativeStart(Len(list), start)
    IN  SubSeq(list, 1, k) \o <<item>> \o SubSeq(list, k + 1, Len(list))

(* newTodos.findIndex(nt => nt.id === id), 0 for JavaScript's -1 *)
FindIndex(s, id) ==
    IF \E i \in 1..Len(s) : s[i].id = id
    THEN CHOOSE i \in 1..Len(s) :
             s[i].id = id /\ \A j \in 1..(i - 1) : s[j].id # id
    ELSE 0

(* { ...t, ...data } *)
Spread(t, data) ==
    [f \in DOMAIN t \cup DOMAIN data |->
        IF f \in DOMAIN data THEN data[f] ELSE t[f]]

(* An item of localStorage whose text is not a JSON text. *)
Text(text) == [kind |-> "text", text |-> text]

(* The values JSON.parse can give: an array with its elements, null, an  *)
(* object that is not an array.                                           *)
JsArray(elements) == [type |-> "array", elements |-> elements]

JsNull == [type |-> "null"]

JsObject == [type |-> "object"]

(* What JSON.parse throws. *)
SyntaxError == [type |-> "SyntaxError"]

(* JSON.stringify(value): the text is kept as the value it is the JSON    *)
(* text of.  A property that is undefined, which JSON.stringify leaves    *)
(* out, is a field the records of the model do not have.                  *)
JSONstringify(value) == [kind |-> "json", value |-> value]

(* JSON.parse(text) *)
JSONparse(item) == IF item.kind = "json" THEN item.value ELSE SyntaxError

(* The initialiser of useState: the parsed item, [] when there is no     *)
(* item, when its text is empty and when JSON.parse throws.               *)
InitialTodos(item) ==
    IF item = NoItem \/ item = Text("") THEN JsArray(<<>>)
    ELSE IF JSONparse(item) = SyntaxError THEN JsArray(<<>>)
    ELSE JSONparse(item)

(* The nondecreasing sequences of n clock readings from lo on. *)
RECURSIVE ClockReadings(_, _)
ClockReadings(n, lo) ==
    IF n = 0 THEN {<<>>}
    ELSE UNION {{<<t>> \o r : r \in ClockReadings(n - 1, t)} : t \in lo..MaxTime}


(* Math.max(...priorityTodos.map(t => t.order || 0)) *)
MaxOrder(s) ==
    CHOOSE m \in {OrderOrZero(s[i]) : i \in 1..Len(s)} :
        \A i \in 1..Len(s) : OrderOrZero(s[i]) <= m

(* addTodoUpdater with the new order taken from the quadrant's size.     *)
addTodoUpdater_BySize(prev, data, id, created, updated) ==
    <<[id |-> id,
       title |-> data.title,
       description |-> data.description,
       priority |-> data.priority,
       isCompleted |-> FALSE,
       order |-> Len(FilterPriority(prev, data.priority)),
       createdAt |-> created,
       updatedAt |-> updated]>> \o prev

(* addTodoUpdater that gives every new task the same id. *)
addTodoUpdater_FixedId(prev, data, id, created, updated) ==
    <<[id |-> 1,
       title |-> data.title,
       description |-> data.description,
       priority |-> data.priority,
       isCompleted |-> FALSE,
       order |-> IF \E i \in 1..Len(prev) : prev[i].priority = data.priority
                 THEN 1 + CHOOSE m \in {prev[i].order : i \in 1..Len(prev)} :
                              \A i \in 1..Len(prev) : prev[i].order <= m
                 ELSE 0,
       createdAt |-> created,
       updatedAt |-> updated]>> \o prev

(* The updater of addTodo: id is the value of crypto.randomUUID(),       *)
(* created and updated the two readings of Date.now().                    *)
addTodoUpdater(prev, data, id, created, updated) ==
    LET priorityTodos == FilterPriority(prev, data.priority)
        maxOrder == IF Len(priorityTodos) > 0 THEN MaxOrder(priorityTodos) ELSE -1
        newTodo == [id |-> id,
                    title |-> data.title,
                    description |-> data.description,
                    priority |-> data.priority,
                    isCompleted |-> FALSE,
                    order |-> maxOrder + 1,
                    createdAt |-> created,
                    updatedAt |-> updated]
    IN  <<newTodo>> \o prev

(* How many elements of s have this id: one reading of Date.now() each.  *)
Matches(s, id) == Cardinality({i \in 1..Len(s) : s[i].id = id})

(* The reading that the map callback takes at element i. *)
ReadingAt(s, id, i, readings) ==
    readings[Cardinality({j \in 1..i : s[j].id = id})]

(* updateTodoUpdater without the test of the id. *)
updateTodoUpdater_Everywhere(prev, id, data, readings) ==
    [i \in 1..Len(prev) |->
        [[f \in DOMAIN prev[i] \cup DOMAIN data |->
             IF f \in DOMAIN data THEN data[f] ELSE prev[i][f]]
         EXCEPT !.updatedAt = readings[1]]]

(* The updater of updateTodo. *)
updateTodoUpdater(prev, id, data, readings) ==
    [i \in 1..Len(prev) |->
        IF prev[i].id = id
        THEN [Spread(prev[i], data) EXCEPT !.updatedAt = ReadingAt(prev, id, i, readings)]
        ELSE prev[i]]

(* deleteTodoUpdater that closes the gap in the orders of the siblings. *)
deleteTodoUpdater_Renumber(prev, id) ==
    LET gone == {prev[i] : i \in {j \in 1..Len(prev) : prev[j].id = id}}
        kept == SelectSeq(prev, LAMBDA t : t.id # id)
    IN  [i \in 1..Len(kept) |->
            IF \E g \in gone : g.priority = kept[i].priority /\ g.order < kept[i].order
            THEN [kept[i] EXCEPT !.order = @ - 1]
            ELSE kept[i]]

(* The updater of deleteTodo. *)
deleteTodoUpdater(prev, id) == SelectSeq(prev, LAMBDA t : t.id # id)

(* toggleTodoUpdater that marks the task completed instead of negating. *)
toggleTodoUpdater_Complete(prev, id, readings) ==
    [i \in 1..Len(prev) |->
        IF prev[i].id = id
        THEN [prev[i] EXCEPT !.isCompleted = TRUE, !.updatedAt = readings[1]]
        ELSE prev[i]]

(* The updater of toggleTodo. *)
toggleTodoUpdater(prev, id, readings) ==
    [i \in 1..Len(prev) |->
        IF prev[i].id = id
        THEN [prev[i] EXCEPT !.isCompleted = ~prev[i].isCompleted,
                             !.updatedAt = ReadingAt(prev, id, i, readings)]
        ELSE prev[i]]

(* ForEachRewrite that leaves the fields out of the rewritten task. *)
RECURSIVE ForEachRewrite_NoFields(_, _, _, _, _)
ForEachRewrite_NoFields(newTodos, list, i, fields, readings) ==
    IF i > Len(list) THEN newTodos
    ELSE LET hits == {k \in 1..Len(newTodos) : newTodos[k].id = list[i].id}
             written ==
                 [k \in 1..Len(newTodos) |->
                     IF k \in hits /\ \A j \in hits : k <= j
                     THEN [newTodos[k] EXCEPT !.order = i - 1, !.updatedAt = readings[i]]
                     ELSE newTodos[k]]
         IN  ForEachRewrite_NoFields(written, list, i + 1, fields, readings)

(* ForEachRewrite that refreshes updatedAt on the whole collection. *)
RECURSIVE ForEachRewrite_TouchAll(_, _, _, _, _)
ForEachRewrite_TouchAll(newTodos, list, i, fields, readings) ==
    IF i > Len(list) THEN newTodos
    ELSE LET hits == {k \in 1..Len(newTodos) : newTodos[k].id = list[i].id}
             written ==
                 [k \in 1..Len(newTodos) |->
                     IF k \in hits /\ \A j \in hits : k <= j
                     THEN [[f \in DOMAIN newTodos[k] \cup DOMAIN fields |->
                               IF f \in DOMAIN fields THEN fields[f] ELSE newTodos[k][f]]
                           EXCEPT !.order = i - 1, !.updatedAt = readings[i]]
                     ELSE [newTodos[k] EXCEPT !.updatedAt = readings[i]]]
         IN  ForEachRewrite_TouchAll(written, list, i + 1, fields, readings)

(* ForEachRewrite that numbers the list from 1. *)
RECURSIVE ForEachRewrite_FromOne(_, _, _, _, _)
ForEachRewrite_FromOne(newTodos, list, i, fields, readings) ==
    IF i > Len(list) THEN newTodos
    ELSE LET idx == CHOOSE k \in 0..Len(newTodos) :
                        /\ k # 0 => newTodos[k].id = list[i].id
                        /\ k = 0 => \A j \in 1..Len(newTodos) : newTodos[j].id # list[i].id
             written ==
                 IF idx # 0
                 THEN [newTodos EXCEPT ![idx] =
                          [[f \in DOMAIN newTodos[idx] \cup DOMAIN fields |->
                               IF f \in DOMAIN fields THEN fields[f] ELSE newTodos[idx][f]]
                           EXCEPT !.order = i, !.updatedAt = readings[i]]]
                 ELSE newTodos
         IN  ForEachRewrite_FromOne(written, list, i + 1, fields, readings)

(* ForEachRewrite that builds the rewritten task from the eight fields   *)
(* addTodo writes.                                                        *)
RECURSIVE ForEachRewrite_EightFields(_, _, _, _, _)
ForEachRewrite_EightFields(newTodos, list, i, fields, readings) ==
    IF i > Len(list) THEN newTodos
    ELSE LET idx == FindIndex(newTodos, list[i].id)
             old == Spread(newTodos[idx], fields)
             written ==
                 IF idx # 0
                 THEN [newTodos EXCEPT ![idx] =
                          [id |-> old.id, title |-> old.title,
                           description |-> old.description, priority |-> old.priority,
                           isCompleted |-> old.isCompleted, order |-> i - 1,
                           createdAt |-> old.createdAt, updatedAt |-> readings[i]]]
                 ELSE newTodos
         IN  ForEachRewrite_EightFields(written, list, i + 1, fields, readings)

(* list.forEach((t, i) => { const idx = newTodos.findIndex(...);         *)
(*   if (idx !== -1) newTodos[idx] = { ...newTodos[idx], ...fields,      *)
(*                                     order: i, updatedAt: Date.now() } *)
(* }), from element i on; fields is empty or the destination priority.   *)
RECURSIVE ForEachRewrite(_, _, _, _, _)
ForEachRewrite(newTodos, list, i, fields, readings) ==
    IF i > Len(list) THEN newTodos
    ELSE LET idx == FindIndex(newTodos, list[i].id)
             written ==
                 IF idx # 0
                 THEN [newTodos EXCEPT ![idx] =
                          [Spread(newTodos[idx], fields) EXCEPT
                              !.order = i - 1, !.updatedAt = readings[i]]]
                 ELSE newTodos
         IN  ForEachRewrite(written, list, i + 1, fields, readings)

(* SanityCheck that only looks whether sourceList[sourceIndex] exists.   *)
SanityCheck_AnyTask(prev, todoId, sourcePriority, sourceIndex) ==
    /\ sourceIndex >= 0
    /\ sourceIndex < Len(QuadrantList(prev, sourcePriority))

(* The sanity check of reorderTodo: sourceList[sourceIndex] is the task. *)
SanityCheck(prev, todoId, sourcePriority, sourceIndex) ==
    LET sourceList == QuadrantList(prev, sourcePriority)
    IN  /\ sourceIndex >= 0
        /\ sourceIndex < Len(sourceList)
        /\ sourceList[sourceIndex + 1].id = todoId

(* How many times a reorder that passes the sanity check reads Date.now(). *)
ReorderReads(prev, sourcePriority, destinationPriority) ==
    IF sourcePriority = destinationPriority
    THEN Len(FilterPriority(prev, sourcePriority))
    ELSE Len(FilterPriority(prev, sourcePriority))
             + Len(FilterPriority(prev, destinationPriority))

(* The updater of reorderTodo. *)
reorderTodoUpdater(prev, todoId, sourcePriority, destinationPriority, sourceIndex, destinationIndex, readings) ==
    LET sourceList == QuadrantList(prev, sourcePriority)
    IN  IF ~SanityCheck(prev, todoId, sourcePriority, sourceIndex) THEN prev
        ELSE LET targetTodo == sourceList[sourceIndex + 1]
             IN  IF sourcePriority = destinationPriority
                 THEN LET list == SpliceInsert(SpliceDelete(sourceList, sourceIndex),
                                               destinationIndex, targetTodo)
                      IN  ForEachRewrite(prev, list, 1, << >>, readings)
                 ELSE LET destList == QuadrantList(prev, destinationPriority)
                          sourceListCopy == SpliceDelete(sourceList, sourceIndex)
                          destListCopy ==
                              SpliceInsert(destList, destinationIndex,
                                  [targetTodo EXCEPT !.priority = destinationPriority])
                          k == Len(sourceListCopy)
                          afterSource ==
                              ForEachRewrite(prev, sourceListCopy, 1, << >>,
                                             SubSeq(readings, 1, k))
                      IN  ForEachRewrite(afterSource, destListCopy, 1,
                              [priority |-> destinationPriority],
                              SubSeq(readings, k + 1, Len(readings)))

(* The latest of the readings taken, the clock's reading when none was. *)
Latest(readings) == IF readings = <<>> THEN now ELSE readings[Len(readings)]

Init ==
    /\ todos = <<>>
    /\ now = 0
    /\ uuids = 0
    /\ moved = FALSE
    /\ today = 1
    /\ trackingTodo = NoTodo
    /\ stats = NoStats
    /\ stored = NoItem
    /\ held = "array"
    /\ isLoaded = TRUE
    /\ effectDeps = NoDeps
    /\ walk = NoWalk

addTodo(data) ==
    /\ \E readings \in ClockReadings(2, now) :
          /\ todos' = addTodoUpdater(todos, data, uuids + 1, readings[1], readings[2])
          /\ now' = Latest(readings)
    /\ uuids' = uuids + 1
    /\ UNCHANGED moved

updateTodo(id, data) ==
    /\ \E readings \in ClockReadings(Matches(todos, id), now) :
          /\ todos' = updateTodoUpdater(todos, id, data, readings)
          /\ now' = Latest(readings)
    /\ moved' = (moved \/ DOMAIN data \cap {"priority", "order"} # {})
    /\ UNCHANGED uuids

deleteTodo(id) ==
    /\ todos' = deleteTodoUpdater(todos, id)
    /\ UNCHANGED <<now, uuids, moved>>

toggleTodo(id) ==
    /\ \E readings \in ClockReadings(Matches(todos, id), now) :
          /\ todos' = toggleTodoUpdater(todos, id, readings)
          /\ now' = Latest(readings)
    /\ UNCHANGED <<uuids, moved>>

reorderTodo(todoId, sourcePriority, destinationPriority, sourceIndex, destinationIndex) ==
    /\ LET reads == IF SanityCheck(todos, todoId, sourcePriority, sourceIndex)
                    THEN ReorderReads(todos, sourcePriority, destinationPriority)
                    ELSE 0
       IN  \E readings \in ClockReadings(reads, now) :
              /\ todos' = reorderTodoUpdater(todos, todoId, sourcePriority,
                              destinationPriority, sourceIndex, destinationIndex,
                              readings)
              /\ now' = Latest(readings)
    /\ UNCHANGED <<uuids, moved>>

(* The index arguments a reorder is tried with. *)
SourceIndices == -1..MaxTodos

DestinationIndices == -1..MaxTodos

AddStep ==
    /\ uuids < MaxTodos
    /\ \E data \in Drafts : addTodo(data)
    /\ UNCHANGED <<view, persistence, walk>>

ApiAddStep ==
    /\ uuids < MaxTodos
    /\ Len(todos) < MaxApiTodos
    /\ \E data \in Drafts : addTodo(data)
    /\ UNCHANGED <<view, persistence, walk>>

EditStep ==
    /\ \E id \in Ids, data \in SavedPatches : updateTodo(id, data)
    /\ UNCHANGED <<view, persistence, walk>>

PlaceStep ==
    /\ \E id \in Ids, data \in PlacementPatches : updateTodo(id, data)
    /\ UNCHANGED <<view, persistence, walk>>

DeleteStep ==
    /\ \E id \in Ids : deleteTodo(id)
    /\ UNCHANGED <<view, persistence, walk>>

ToggleStep ==
    /\ \E id \in Ids : toggleTodo(id)
    /\ UNCHANGED <<view, persistence, walk>>

(* The destination arguments are read only after the sanity check.       *)
ReorderStep ==
    /\ \E todoId \in Ids, sourcePriority \in Priorities, sourceIndex \in SourceIndices :
          IF SanityCheck(todos, todoId, sourcePriority, sourceIndex)
          THEN \E destinationPriority \in Priorities,
                  destinationIndex \in DestinationIndices :
                  reorderTodo(todoId, sourcePriority, destinationPriority,
                              sourceIndex, destinationIndex)
          ELSE reorderTodo(todoId, sourcePriority, sourcePriority, sourceIndex, 0)
    /\ UNCHANGED <<view, persistence, walk>>

(* Every call the hook admits, on at most MaxApiTodos tasks at a time. *)
Next ==
    \/ ApiAddStep
    \/ EditStep
    \/ PlaceStep
    \/ DeleteStep
    \/ ToggleStep
    \/ ReorderStep

Spec == Init /\ [][Next]_vars

(* The calls the views make, and drags with stale arguments, on at most  *)
(* MaxTodos tasks: no view passes priority or order to updateTodo.        *)
NextViews ==
    \/ AddStep
    \/ EditStep
    \/ DeleteStep
    \/ ToggleStep
    \/ ReorderStep

SpecViews == Init /\ [][NextViews]_vars

(* Creating, deleting and dragging only, on at most MaxTodos tasks.       *)
NextDrag ==
    \/ AddStep
    \/ DeleteStep
    \/ ReorderStep

SpecDrag == Init /\ [][NextDrag]_vars

-----------------------------------------------------------------------------
(* The daily tracker: the sub-task checklists of TodoItem and of          *)
(* DailyTrackerModal, and the view's handlers that save a day's progress. *)
(* Days are counted from Friday 2024-05-31, which is day 1.               *)

(* format(date, "yyyy-MM-dd") of the days -3 (a Monday) to 10 (a Sunday). *)
DateKeys ==
    <<"2024-05-27", "2024-05-28", "2024-05-29", "2024-05-30", "2024-05-31",
      "2024-06-01", "2024-06-02", "2024-06-03", "2024-06-04", "2024-06-05",
      "2024-06-06", "2024-06-07", "2024-06-08", "2024-06-09">>

(* format(day, "yyyy-MM-dd") *)
format(day) == DateKeys[day + 4]

(* new Date(dateStr + "T00:00:00"), as the day it falls on. *)
ParseDate(dateStr) == (CHOOSE i \in 1..Len(DateKeys) : DateKeys[i] = dateStr) - 4

(* The hook's state. *)
hook == <<todos, now, uuids, moved>>

(* The sub-tasks of the stored daily tasks. *)
StoredSubTasks ==
    <<[id |-> "a", title |-> "a"], [id |-> "b", title |-> "b"]>>

(* A daily task as JSON.parse gives it back from localStorage. *)
StoredDailyTodo(id, subTasks) ==
    [id |-> id,
     title |-> "t1",
     description |-> "",
     priority |-> "urgent-important",
     isCompleted |-> FALSE,
     order |-> id - 1,
     createdAt |-> 0,
     updatedAt |-> 0,
     isDaily |-> TRUE,
     subTasks |-> subTasks]

(* The collection found in localStorage: a daily task of two sub-tasks   *)
(* and a daily task of one.                                               *)
StoredTodos ==
    <<StoredDailyTodo(2, SubSeq(StoredSubTasks, 1, 1)), StoredDailyTodo(1, StoredSubTasks)>>

(* {} *)
EmptyObject == [k \in {} |-> TRUE]

(* todo.subTasks ?? [] *)
SubTasksOf(todo) == IF "subTasks" \in DOMAIN todo THEN todo.subTasks ELSE <<>>

(* todo.isDaily ?? false *)
IsDaily(todo) == "isDaily" \in DOMAIN todo /\ todo.isDaily

(* todo.dailyProgress || {} *)
DailyProgressOf(todo) ==
    IF "dailyProgress" \in DOMAIN todo THEN todo.dailyProgress ELSE EmptyObject

(* Whether todo.dailyProgress?.[todayKey] is a record. *)
HasProgressOn(todo, todayKey) == todayKey \in DOMAIN DailyProgressOf(todo)

(* existingProgress?.completedSubTasks ?? [] *)
CompletedSubTaskIds(todo, todayKey) ==
    IF HasProgressOn(todo, todayKey)
    THEN DailyProgressOf(todo)[todayKey].completedSubTasks
    ELSE <<>>

(* existingProgress?.notes ?? "" *)
NotesOf(todo, todayKey) ==
    IF HasProgressOn(todo, todayKey) THEN DailyProgressOf(todo)[todayKey].notes ELSE ""

(* ids.includes(id) *)
Includes(ids, id) == \E i \in 1..Len(ids) : ids[i] = id

(* subTasks.filter(st => completedSubTaskIds.includes(st.id)).length *)
CompletedCount(todo, todayKey) ==
    Len(SelectSeq(SubTasksOf(todo),
                  LAMBDA st : Includes(CompletedSubTaskIds(todo, todayKey), st.id)))

(* totalSubTasks > 0 && completedCount === totalSubTasks *)
AllCompleted(todo, todayKey) ==
    Len(SubTasksOf(todo)) > 0 /\ CompletedCount(todo, todayKey) = Len(SubTasksOf(todo))

(* handleSubTaskToggle that never finds the day done. *)
handleSubTaskToggle_Unfinished(todo, todayKey, subTaskId, checked) ==
    [isCompleted |-> FALSE,
     completedSubTasks |->
         IF checked
         THEN Append(CompletedSubTaskIds(todo, todayKey), subTaskId)
         ELSE SelectSeq(CompletedSubTaskIds(todo, todayKey), LAMBDA id : id # subTaskId),
     notes |-> NotesOf(todo, todayKey)]

(* handleSubTaskToggle that adds the id when the box is cleared as well. *)
handleSubTaskToggle_AppendAlways(todo, todayKey, subTaskId, checked) ==
    LET updatedIds == Append(CompletedSubTaskIds(todo, todayKey), subTaskId)
    IN  [isCompleted |->
             Len(SubTasksOf(todo)) > 0 /\ Len(updatedIds) = Len(SubTasksOf(todo)),
         completedSubTasks |-> updatedIds,
         notes |-> NotesOf(todo, todayKey)]

(* The progress that handleSubTaskToggle hands to the save callback. *)
handleSubTaskToggle(todo, todayKey, subTaskId, checked) ==
    LET completedSubTaskIds == CompletedSubTaskIds(todo, todayKey)
        totalSubTasks == Len(SubTasksOf(todo))
        updatedIds == IF checked
                      THEN Append(completedSubTaskIds, subTaskId)
                      ELSE SelectSeq(completedSubTaskIds, LAMBDA id : id # subTaskId)
        allDone == totalSubTasks > 0 /\ Len(updatedIds) = totalSubTasks
    IN  [isCompleted |-> allDone,
         completedSubTasks |-> updatedIds,
         notes |-> NotesOf(todo, todayKey)]

(* The progress that handleMarkAllComplete hands to the save callback. *)
handleMarkAllComplete(todo, todayKey) ==
    [isCompleted |-> TRUE,
     completedSubTasks |-> [i \in 1..Len(SubTasksOf(todo)) |-> SubTasksOf(todo)[i].id],
     notes |-> NotesOf(todo, todayKey)]

(* A dailyProgress of the saved day only. *)
UpdatedDailyProgress_OnlyDay(todo, dateKey, progress) == dateKey :> progress

(* { ...(todo.dailyProgress || {}), [dateKey]: progress } *)
UpdatedDailyProgress(todo, dateKey, progress) ==
    Spread(DailyProgressOf(todo), dateKey :> progress)

(* The view's handler behind the checklists of the task cards. *)
handleSaveDashboardProgress(todoId, dateKey, progress) ==
    /\ IF \A i \in 1..Len(todos) : todos[i].id # todoId
       THEN UNCHANGED hook
       ELSE LET targetTodo == todos[FindIndex(todos, todoId)]
            IN  updateTodo(todoId,
                    [dailyProgress |-> UpdatedDailyProgress(targetTodo, dateKey, progress)])
    /\ UNCHANGED trackingTodo

(* The view's handler behind the tracker modal. *)
handleSaveDailyProgress(todoId, dateKey, progress) ==
    IF trackingTodo = NoTodo
    THEN UNCHANGED <<hook, trackingTodo>>
    ELSE LET updatedDailyProgress == UpdatedDailyProgress(trackingTodo, dateKey, progress)
         IN  /\ updateTodo(trackingTodo.id, [dailyProgress |-> updatedDailyProgress])
             /\ trackingTodo' = Spread(trackingTodo, [dailyProgress |-> updatedDailyProgress])

(* A click on a checkbox of a task card's checklist: the checkbox shows  *)
(* isChecked and reports the other value. The cards are under the modal   *)
(* while it is open.                                                      *)
CardToggleStep ==
    /\ trackingTodo = NoTodo
    /\ \E i \in 1..Len(todos) :
          LET todo == todos[i]
              todayKey == format(today)
          IN  /\ IsDaily(todo)
              /\ \E k \in 1..Len(SubTasksOf(todo)) :
                    LET subTask == SubTasksOf(todo)[k]
                        isChecked == Includes(CompletedSubTaskIds(todo, todayKey), subTask.id)
                    IN  handleSaveDashboardProgress(todo.id, todayKey,
                            handleSubTaskToggle(todo, todayKey, subTask.id, ~isChecked))
    /\ UNCHANGED <<today, stats, persistence, walk>>

(* onTrackDaily(todo): the card's button opens the modal on its task. *)
TrackDailyStep ==
    /\ trackingTodo = NoTodo
    /\ \E i \in 1..Len(todos) :
          /\ IsDaily(todos[i])
          /\ trackingTodo' = todos[i]
    /\ UNCHANGED <<hook, today, stats, persistence, walk>>

(* A click on a checkbox of the modal's checklist. *)
ModalToggleStep ==
    /\ trackingTodo # NoTodo
    /\ LET todayKey == format(today)
       IN  \E k \in 1..Len(SubTasksOf(trackingTodo)) :
              LET subTask == SubTasksOf(trackingTodo)[k]
                  isChecked ==
                      Includes(CompletedSubTaskIds(trackingTodo, todayKey), subTask.id)
              IN  handleSaveDailyProgress(trackingTodo.id, todayKey,
                      handleSubTaskToggle(trackingTodo, todayKey, subTask.id, ~isChecked))
    /\ UNCHANGED <<today, stats, persistence, walk>>

(* A click on the modal's button that fulfils all, shown while the list  *)
(* has sub-tasks and is not all completed.                                *)
MarkAllStep ==
    /\ trackingTodo # NoTodo
    /\ LET todayKey == format(today)
       IN  /\ ~AllCompleted(trackingTodo, todayKey)
           /\ Len(SubTasksOf(trackingTodo)) > 0
           /\ handleSaveDailyProgress(trackingTodo.id, todayKey,
                  handleMarkAllComplete(trackingTodo, todayKey))
    /\ UNCHANGED <<today, stats, persistence, walk>>

(* onClose: setTrackingTodo(null) *)
CloseModalStep ==
    /\ trackingTodo # NoTodo
    /\ trackingTodo' = NoTodo
    /\ UNCHANGED <<hook, today, stats, persistence, walk>>

(* The next render finds startOfDay(new Date()) on the next day. *)
MidnightStep ==
    /\ today < LastTrackedDay
    /\ today' = today + 1
    /\ UNCHANGED <<hook, trackingTodo, stats, persistence, walk>>

(* The view opened on the stored daily tasks. *)
InitDaily ==
    /\ todos = StoredTodos
    /\ now = 0
    /\ uuids = 0
    /\ moved = FALSE
    /\ today = 1
    /\ trackingTodo = NoTodo
    /\ stats = NoStats
    /\ stored = JSONstringify(JsArray(StoredTodos))
    /\ held = "array"
    /\ isLoaded = TRUE
    /\ effectDeps = NoDeps
    /\ walk = NoWalk

NextDaily ==
    \/ CardToggleStep
    \/ TrackDailyStep
    \/ ModalToggleStep
    \/ MarkAllStep
    \/ CloseModalStep
    \/ MidnightStep

SpecDaily == InitDaily /\ [][NextDaily]_vars

-----------------------------------------------------------------------------
(* The tracking dashboard (DailyTrackingDashboard.tsx): the heatmap's    *)
(* intensity of a day and the three aggregates of a task's progress.      *)

(* The heatmap's intensity of a day, as <<numerator, denominator>>. *)
Intensity(todo, key) ==
    IF HasProgressOn(todo, key) /\ DailyProgressOf(todo)[key].isCompleted
    THEN <<1, 1>>
    ELSE IF HasProgressOn(todo, key) /\ Len(SubTasksOf(todo)) > 0
         THEN <<Len(DailyProgressOf(todo)[key].completedSubTasks), Len(SubTasksOf(todo))>>
         ELSE <<0, 1>>

(* selectedTodo?.dailyProgress of a task without the field. *)
Undefined == [undefined |-> TRUE]

(* selectedTodo?.dailyProgress *)
SelectedDailyProgress(todo) ==
    IF "dailyProgress" \in DOMAIN todo THEN todo.dailyProgress ELSE Undefined

(* progress[key]?.isCompleted counted as a day completed by a partly     *)
(* checked list as well.                                                  *)
IsCompletedOn_Partial(progress, key) ==
    /\ key \in DOMAIN progress
    /\ \/ progress[key].isCompleted
       \/ /\ "completedSubTasks" \in DOMAIN progress[key]
          /\ progress[key].completedSubTasks # <<>>

(* progress[key]?.isCompleted answered by whether the day has a record. *)
IsCompletedOn_Recorded(progress, key) == key \in DOMAIN progress

(* progress[key]?.isCompleted *)
IsCompletedOn(progress, key) == key \in DOMAIN progress /\ progress[key].isCompleted

(* subDays(date, amount) *)
subDays(day, amount) == day - amount

(* The while loop of calculateCurrentStreak. *)
RECURSIVE StreakWalk(_, _, _)
StreakWalk(progress, checkDate, streak) ==
    IF IsCompletedOn(progress, format(checkDate))
    THEN StreakWalk(progress, subDays(checkDate, 1), streak + 1)
    ELSE streak

(* calculateCurrentStreak that never starts from yesterday. *)
calculateCurrentStreak_FromToday(progress) ==
    IF progress = Undefined THEN 0 ELSE StreakWalk(progress, today, 0)

calculateCurrentStreak(progress) ==
    IF progress = Undefined THEN 0
    ELSE LET checkDate == IF ~IsCompletedOn(progress, format(today))
                           THEN subDays(today, 1)
                           ELSE today
         IN  StreakWalk(progress, checkDate, 0)

(* sort((a, b) => a.getTime() - b.getTime()) of dates that are distinct. *)
RECURSIVE SortDates(_)
SortDates(dates) ==
    IF dates = {} THEN <<>>
    ELSE LET first == CHOOSE d \in dates : \A e \in dates : d <= e
         IN  <<first>> \o SortDates(dates \ {first})

(* differenceInCalendarDays(dateLeft, dateRight) *)
differenceInCalendarDays(dateLeft, dateRight) == dateLeft - dateRight

(* The for loop of calculateBestStreak that goes on counting over a gap. *)
RECURSIVE BestStreakLoop_NoReset(_, _, _, _)
BestStreakLoop_NoReset(completedDates, i, bestStreak, currentStreak) ==
    IF i > Len(completedDates) THEN bestStreak
    ELSE BestStreakLoop_NoReset(completedDates, i + 1,
             IF bestStreak > currentStreak + 1 THEN bestStreak ELSE currentStreak + 1,
             currentStreak + 1)

(* The for loop of calculateBestStreak that gives the length of the     *)
(* last run instead of the longest.                                       *)
RECURSIVE BestStreakLoop_LastRun(_, _, _, _)
BestStreakLoop_LastRun(completedDates, i, bestStreak, currentStreak) ==
    IF i > Len(completedDates) THEN currentStreak
    ELSE IF completedDates[i] - completedDates[i - 1] = 1
         THEN BestStreakLoop_LastRun(completedDates, i + 1, bestStreak, currentStreak + 1)
         ELSE BestStreakLoop_LastRun(completedDates, i + 1, bestStreak, 1)

(* The for loop of calculateBestStreak; i is the 1-based place of        *)
(* completedDates[i] of the code.                                         *)
RECURSIVE BestStreakLoop(_, _, _, _)
BestStreakLoop(completedDates, i, bestStreak, currentStreak) ==
    IF i > Len(completedDates) THEN bestStreak
    ELSE LET diff == differenceInCalendarDays(completedDates[i], completedDates[i - 1])
         IN  IF diff = 1
             THEN BestStreakLoop(completedDates, i + 1,
                      Max(bestStreak, currentStreak + 1), currentStreak + 1)
             ELSE BestStreakLoop(completedDates, i + 1, bestStreak, 1)

calculateBestStreak(progress) ==
    IF progress = Undefined THEN 0
    ELSE LET completedDates ==
                 SortDates({ParseDate(dateStr) :
                               dateStr \in {k \in DOMAIN progress : progress[k].isCompleted}})
         IN  IF Len(completedDates) = 0 THEN 0
             ELSE BestStreakLoop(completedDates, 2, 1, 1)

(* date.getDay(): 0 is Sunday. *)
getDay(day) == (day + 4) % 7

(* { weekStartsOn: 1 } *)
weekStartsOn == 1

(* The start of a week that starts on Sunday. *)
startOfWeek_Sunday(day) == day - getDay(day)

(* startOfWeek(date, { weekStartsOn }) *)
startOfWeek(day) ==
    day - ((IF getDay(day) < weekStartsOn THEN 7 ELSE 0) + getDay(day) - weekStartsOn)

(* endOfWeek(date, { weekStartsOn }) *)
endOfWeek(day) ==
    day + ((IF getDay(day) < weekStartsOn THEN -7 ELSE 0) + 6 - (getDay(day) - weekStartsOn))

(* eachDayOfInterval({ start, end }) *)
eachDayOfInterval(start, end) == [i \in 1..(end - start + 1) |-> start + i - 1]

calculateThisWeekCompletions(progress) ==
    IF progress = Undefined THEN 0
    ELSE LET weekStart == startOfWeek(today)
             weekEnd == endOfWeek(today)
             days == eachDayOfInterval(weekStart, weekEnd)
         IN  Len(SelectSeq(days, LAMBDA day : IsCompletedOn(progress, format(day))))

(* The records of a day in a stored progress: nothing checked, one of    *)
(* the two sub-tasks checked, both checked.                               *)
StoredDayRecords ==
    {[isCompleted |-> FALSE, completedSubTasks |-> <<>>, notes |-> ""],
     [isCompleted |-> FALSE, completedSubTasks |-> <<"a">>, notes |-> ""],
     [isCompleted |-> TRUE, completedSubTasks |-> <<"a", "b">>, notes |-> ""]}

(* The dailyProgress maps over the days 1..MaxDay. *)
StoredProgress ==
    UNION {[keys -> StoredDayRecords] : keys \in SUBSET {format(day) : day \in 1..MaxDay}}

(* The daily task found in localStorage, with and without progress. *)
TrackedTodos ==
    {StoredDailyTodo(1, StoredSubTasks)}
        \cup {Spread(StoredDailyTodo(1, StoredSubTasks), [dailyProgress |-> progress]) :
                 progress \in StoredProgress}

(* The dashboard opened on a stored daily task on one of the days. *)
InitDashboard ==
    /\ todos \in {<<todo>> : todo \in TrackedTodos}
    /\ now = 0
    /\ uuids = 0
    /\ moved = FALSE
    /\ today \in 1..MaxDay
    /\ trackingTodo = NoTodo
    /\ stats = NoStats
    /\ stored = JSONstringify(JsArray(todos))
    /\ held = "array"
    /\ isLoaded = TRUE
    /\ effectDeps = NoDeps
    /\ walk = NoWalk

(* The dashboard renders the statistics of the selected task. *)
RenderStep ==
    /\ \E i \in 1..Len(todos) :
          /\ IsDaily(todos[i])
          /\ LET progress == SelectedDailyProgress(todos[i])
             IN  stats' = [rendered |-> TRUE,
                           currentStreak |-> calculateCurrentStreak(progress),
                           bestStreak |-> calculateBestStreak(progress),
                           thisWeek |-> calculateThisWeekCompletions(progress)]
    /\ UNCHANGED <<hook, today, trackingTodo, persistence, walk>>

NextDashboard == RenderStep

SpecDashboard == InitDashboard /\ [][NextDashboard]_vars

(* calculateCurrentStreak, statement by statement, on the progress of    *)
(* the task the dashboard shows: the statements before the loop.          *)
EnterWalkStep ==
    /\ walk.pc = "idle"
    /\ LET progress == SelectedDailyProgress(todos[1])
       IN  walk' =
               IF progress = Undefined
               THEN [pc |-> "done", streak |-> 0, checkDate |-> today, iterations |-> 0]
               ELSE [pc |-> "loop",
                     streak |-> 0,
                     checkDate |-> IF ~IsCompletedOn(progress, format(today))
                                   THEN subDays(today, 1)
                                   ELSE today,
                     iterations |-> 0]
    /\ UNCHANGED <<hook, view, persistence>>

(* One pass of while (true): streak++ and a day back, or break.           *)
WalkStep ==
    /\ walk.pc = "loop"
    /\ LET progress == SelectedDailyProgress(todos[1])
           key == format(walk.checkDate)
       IN  walk' =
               IF IsCompletedOn(progress, key)
               THEN [walk EXCEPT !.streak = walk.streak + 1,
                                 !.checkDate = subDays(walk.checkDate, 1),
                                 !.iterations = walk.iterations + 1]
               ELSE [walk EXCEPT !.pc = "done", !.iterations = walk.iterations + 1]
    /\ UNCHANGED <<hook, view, persistence>>

NextWalk ==
    \/ EnterWalkStep
    \/ WalkStep

(* The loop runs to its end once it is entered. *)
SpecWalk == InitDashboard /\ [][NextWalk]_vars /\ WF_vars(WalkStep)

-----------------------------------------------------------------------------
(* The persistence of the store: the item of localStorage that the       *)
(* initialiser of useState reads and that the sync effect writes.         *)

(* A stored collection with progress: the daily task of one sub-task and  *)
(* the daily task of two, one of them checked on the first day.           *)
StoredTrackedTodos ==
    <<StoredDailyTodo(2, SubSeq(StoredSubTasks, 1, 1)),
      Spread(StoredDailyTodo(1, StoredSubTasks),
          [dailyProgress |->
              (format(1) :> [isCompleted |-> FALSE, completedSubTasks |-> <<"a">>,
                             notes |-> ""])])>>

(* The items found at startup: none, an empty text, a text that is not    *)
(* JSON, the JSON texts of null, of an object, of [] and of a collection. *)
StoredItems ==
    {NoItem, Text(""), Text("{oops"), JSONstringify(JsNull), JSONstringify(JsObject),
     JSONstringify(JsArray(<<>>)), JSONstringify(JsArray(StoredTrackedTodos))}

(* The value useState holds. *)
TodosValue == IF held = "array" THEN JsArray(todos) ELSE [type |-> held]

(* Dependencies of the sync effect that leave todos out: [isLoaded]. *)
SyncDeps_OnlyLoaded == [ran |-> TRUE, isLoaded |-> isLoaded]

(* The dependencies of the sync effect. *)
SyncDeps == [ran |-> TRUE, todos |-> TodosValue, isLoaded |-> isLoaded]

(* The view renders its tabs: it returns null before isLoaded, and        *)
(* todos.some and todos.filter throw when todos is not an array.          *)
Rendered == isLoaded /\ held = "array"

(* Startup: useState's initialiser has read the item; the first rendering *)
(* is the hydration, where useSyncExternalStore gives the server's false. *)
InitStorage ==
    /\ stored \in StoredItems
    /\ held = InitialTodos(stored).type
    /\ todos = IF InitialTodos(stored).type = "array"
               THEN InitialTodos(stored).elements
               ELSE <<>>
    /\ now = 0
    /\ uuids = IF InitialTodos(stored).type = "array"
               THEN Len(InitialTodos(stored).elements)
               ELSE 0
    /\ moved = FALSE
    /\ today = 1
    /\ trackingTodo = NoTodo
    /\ stats = NoStats
    /\ isLoaded = FALSE
    /\ effectDeps = NoDeps
    /\ walk = NoWalk

(* useSyncExternalStore gives the client's snapshot, true. *)
ClientSnapshotStep ==
    /\ ~isLoaded
    /\ isLoaded' = TRUE
    /\ UNCHANGED <<hook, view, stored, held, effectDeps, walk>>

(* useEffect(() => { if (isLoaded) localStorage.setItem(STORAGE_KEY,      *)
(* JSON.stringify(todos)) }, [todos, isLoaded]): it runs after a          *)
(* rendering that was committed with other dependencies than it last ran  *)
(* with; a rendering that throws commits nothing.                         *)
SyncEffectStep ==
    /\ ~isLoaded \/ held = "array"
    /\ effectDeps # SyncDeps
    /\ stored' = IF isLoaded THEN JSONstringify(TodosValue) ELSE stored
    /\ effectDeps' = SyncDeps
    /\ UNCHANGED <<hook, view, held, isLoaded, walk>>

(* The calls of the hook the rendered view makes, the effect and the      *)
(* snapshot.                                                              *)
NextStorage ==
    \/ ClientSnapshotStep
    \/ SyncEffectStep
    \/ Rendered /\ ApiAddStep
    \/ Rendered /\ DeleteStep
    \/ Rendered /\ ToggleStep

SpecStorage == InitStorage /\ [][NextStorage]_vars

(* React runs a pending effect and hands on the client's snapshot. *)
SpecStorageFair ==
    SpecStorage /\ WF_vars(SyncEffectStep) /\ WF_vars(ClientSnapshotStep)

(* Dragging the tasks of a stored collection with progress. *)
InitTracked ==
    /\ todos = StoredTrackedTodos
    /\ now = 0
    /\ uuids = Len(StoredTrackedTodos)
    /\ moved = FALSE
    /\ today = 1
    /\ trackingTodo = NoTodo
    /\ stats = NoStats
    /\ stored = JSONstringify(JsArray(StoredTrackedTodos))
    /\ held = "array"
    /\ isLoaded = TRUE
    /\ effectDeps = NoDeps
    /\ walk = NoWalk

NextTrackedDrag ==
    \/ ApiAddStep
    \/ DeleteStep
    \/ ReorderStep

SpecTrackedDrag == InitTracked /\ [][NextTrackedDrag]_vars

-----------------------------------------------------------------------------
(* Properties of the store. *)

IdsOf(list) == [i \in 1..Len(list) |-> list[i].id]

OrdersOf(list) == [i \in 1..Len(list) |-> list[i].order]

StrictlyIncreasing(list) ==
    \A i \in 1..(Len(list) - 1) : list[i].order < list[i + 1].order

(* C1, as claimed: after any sequence of addTodo, updateTodo, deleteTodo, *)
(* toggleTodo and reorderTodo calls, every quadrant's list has strictly   *)
(* increasing order values.                                               *)
C1_StrictOrdersAlways ==
    \A q \in Priorities : StrictlyIncreasing(getTodosByPriority(q))

(* C1, as amended: every quadrant's list has strictly increasing order    *)
(* values as long as no updateTodo call has passed a priority or an       *)
(* order; after such a call the order values are still non-decreasing.    *)
C1_StrictOrdersUnlessMoved ==
    \A q \in Priorities :
        LET list == getTodosByPriority(q)
        IN  /\ \A i \in 1..(Len(list) - 1) : list[i].order <= list[i + 1].order
            /\ ~moved => StrictlyIncreasing(list)

(* C1's case: a quadrant that lost its first task and then got a new one, *)
(* with no task ever moved by updateTodo.                                 *)
C1_Witness ==
    /\ ~moved
    /\ \E q \in Priorities :
          LET list == getTodosByPriority(q)
          IN  /\ Len(list) = 2
              /\ OrdersOf(list) = <<1, 2>>
              /\ IdsOf(list) = <<2, 3>>

(* Readings for every Date.now() call an updater can make on todos. *)
AnyReadings == ClockReadings(Len(todos) + 1, now)

(* sourceList[sourceIndex] is not the task todoId. *)
Mismatch(todoId, sourcePriority, sourceIndex) ==
    LET list == getTodosByPriority(sourcePriority)
    IN  \/ sourceIndex < 0
        \/ sourceIndex >= Len(list)
        \/ list[sourceIndex + 1].id # todoId

(* C2: reorderTodo returns the collection as it was whenever the task at *)
(* sourceIndex of the sorted source list is not the task todoId.          *)
C2_MismatchLeavesCollection ==
    \A todoId \in Ids, sourcePriority \in Priorities, sourceIndex \in SourceIndices :
        Mismatch(todoId, sourcePriority, sourceIndex) =>
            \A destinationPriority \in Priorities,
               destinationIndex \in DestinationIndices, readings \in AnyReadings :
                reorderTodoUpdater(todos, todoId, sourcePriority, destinationPriority,
                    sourceIndex, destinationIndex, readings) = todos

(* C2's case: task 1 was deleted and the two others were dragged, so a   *)
(* reorder of task 1, of index 2, or of task 2 at index 0 is a mismatch.  *)
C2_Witness ==
    /\ now < MaxTime
    /\ \E q \in Priorities :
          /\ IdsOf(getTodosByPriority(q)) = <<3, 2>>
          /\ Len(todos) = 2
          /\ Mismatch(1, q, 0) /\ Mismatch(2, q, 0) /\ Mismatch(2, q, 2)

(* s with the element at 0-based index from taken out and put back at    *)
(* 0-based index to.                                                      *)
Moved(s, from, to) ==
    [k \in 1..Len(s) |->
        IF k = to + 1 THEN s[from + 1]
        ELSE IF from < to /\ k > from /\ k <= to THEN s[k + 1]
        ELSE IF to < from /\ k > to + 1 /\ k <= from + 1 THEN s[k - 1]
        ELSE s[k]]

(* The orders 0..n-1. *)
Positions(n) == [i \in 1..n |-> i - 1]

(* C3: a same-quadrant reorder that passes the sanity check, with the    *)
(* destination index within 0..n-1, leaves the quadrant's ids as before   *)
(* with the task moved from sourceIndex to destinationIndex, and the      *)
(* order of the task at every position i equal to i.                      *)
C3_SameQuadrantReorder ==
    \A q \in Priorities :
        LET list == getTodosByPriority(q)
            n == Len(list)
        IN  \A sourceIndex \in 0..(n - 1), destinationIndex \in 0..(n - 1),
               readings \in AnyReadings :
                LET after == QuadrantList(
                                 reorderTodoUpdater(todos, list[sourceIndex + 1].id, q, q,
                                     sourceIndex, destinationIndex, readings), q)
                IN  /\ IdsOf(after) = Moved(IdsOf(list), sourceIndex, destinationIndex)
                    /\ OrdersOf(after) = Positions(n)

(* C3's case: three tasks of one quadrant after a drag, in orders 0..2,   *)
(* with a task to move from either end to the other.                      *)
C3_Witness ==
    \E q \in Priorities :
        LET list == getTodosByPriority(q)
        IN  /\ IdsOf(list) = <<2, 3, 1>>
            /\ OrdersOf(list) = <<0, 1, 2>>
            /\ Moved(IdsOf(list), 0, 2) = <<3, 1, 2>>
            /\ Moved(IdsOf(list), 2, 0) = <<1, 2, 3>>

(* s without the element at 0-based index k. *)
Removed(s, k) == [i \in 1..(Len(s) - 1) |-> IF i <= k THEN s[i] ELSE s[i + 1]]

(* s with x put in at 0-based index k. *)
Inserted(s, k, x) ==
    [i \in 1..(Len(s) + 1) |->
        IF i <= k THEN s[i] ELSE IF i = k + 1 THEN x ELSE s[i - 1]]

(* The tasks of a collection that have this id. *)
TasksWithId(s, id) == {s[i] : i \in {j \in 1..Len(s) : s[j].id = id}}

(* C4: a cross-quadrant reorder that passes the sanity check, with the   *)
(* destination index within 0..m, leaves the source list without the     *)
(* moved task in orders 0..n-2 and the destination list with the moved   *)
(* task put in at destinationIndex in orders 0..m; the moved task has    *)
(* the destination priority and order destinationIndex.                  *)
C4_CrossQuadrantReorder ==
    \A sourcePriority \in Priorities, destinationPriority \in Priorities :
        sourcePriority # destinationPriority =>
            LET source == getTodosByPriority(sourcePriority)
                dest == getTodosByPriority(destinationPriority)
            IN  \A sourceIndex \in 0..(Len(source) - 1),
                   destinationIndex \in 0..Len(dest), readings \in AnyReadings :
                    LET todoId == source[sourceIndex + 1].id
                        after == reorderTodoUpdater(todos, todoId, sourcePriority,
                                     destinationPriority, sourceIndex, destinationIndex,
                                     readings)
                        sourceAfter == QuadrantList(after, sourcePriority)
                        destAfter == QuadrantList(after, destinationPriority)
                    IN  /\ IdsOf(sourceAfter) = Removed(IdsOf(source), sourceIndex)
                        /\ OrdersOf(sourceAfter) = Positions(Len(source) - 1)
                        /\ IdsOf(destAfter) = Inserted(IdsOf(dest), destinationIndex, todoId)
                        /\ OrdersOf(destAfter) = Positions(Len(dest) + 1)
                        /\ \A t \in TasksWithId(after, todoId) :
                              t.priority = destinationPriority /\ t.order = destinationIndex

(* C4's case: the newer task 2 dragged to index 0 of the quadrant whose   *)
(* only occupant was task 1, its own quadrant left empty; another drag of *)
(* task 2 to a third quadrant is at hand.                                 *)
C4_Witness ==
    \E q \in Priorities :
        LET list == getTodosByPriority(q)
        IN  /\ IdsOf(list) = <<2, 1>>
            /\ OrdersOf(list) = <<0, 1>>
            /\ Len(todos) = 3
            /\ \E other \in Priorities \ {q} : IdsOf(getTodosByPriority(other)) = <<3>>

(* C5 as stated: a cross-quadrant reorder of a task of the source       *)
(* quadrant changes the priority of exactly one task, the moved one, to   *)
(* the destination priority, whatever the index arguments.                *)
C5_ExactlyOneWhateverTheIndices ==
    \A i \in 1..Len(todos), destinationPriority \in Priorities :
        todos[i].priority # destinationPriority =>
            \A sourceIndex \in SourceIndices, destinationIndex \in DestinationIndices,
               readings \in AnyReadings :
                LET after == reorderTodoUpdater(todos, todos[i].id, todos[i].priority,
                                 destinationPriority, sourceIndex, destinationIndex,
                                 readings)
                IN  /\ Len(after) = Len(todos)
                    /\ \A k \in 1..Len(todos) :
                          after[k].priority =
                              IF k = i THEN destinationPriority ELSE todos[k].priority

(* C5: a cross-quadrant reorder changes the priority of no task but the  *)
(* moved one, which gets the destination priority, whatever the index     *)
(* arguments; it changes exactly that one priority when the sanity check  *)
(* passes and none when it fails.                                         *)
C5_OnlyMovedTaskChangesPriority ==
    \A todoId \in Ids, sourcePriority \in Priorities, destinationPriority \in Priorities :
        sourcePriority # destinationPriority =>
            \A sourceIndex \in SourceIndices, destinationIndex \in DestinationIndices,
               readings \in AnyReadings :
                LET after == reorderTodoUpdater(todos, todoId, sourcePriority,
                                 destinationPriority, sourceIndex, destinationIndex,
                                 readings)
                    changed == {i \in 1..Len(todos) : after[i].priority # todos[i].priority}
                IN  /\ Len(after) = Len(todos)
                    /\ \A i \in changed :
                          todos[i].id = todoId /\ after[i].priority = destinationPriority
                    /\ Cardinality(changed) =
                          IF Mismatch(todoId, sourcePriority, sourceIndex) THEN 0 ELSE 1

(* C5's case: after a drag, a quadrant of two tasks beside a quadrant of  *)
(* one, so that a task can move into a quadrant that keeps its occupants. *)
C5_Witness ==
    \E q \in Priorities, other \in Priorities :
        /\ q # other
        /\ IdsOf(getTodosByPriority(q)) = <<3, 1>>
        /\ OrdersOf(getTodosByPriority(q)) = <<0, 1>>
        /\ IdsOf(getTodosByPriority(other)) = <<2>>

(* C6: reorderTodo leaves every task of a quadrant that is neither the   *)
(* source nor the destination as it was, in every field, and leaves every *)
(* task at its position in the collection.                                *)
C6_OtherQuadrantsAndPositionsKept ==
    \A todoId \in Ids, sourcePriority \in Priorities, destinationPriority \in Priorities,
       sourceIndex \in SourceIndices, destinationIndex \in DestinationIndices,
       readings \in AnyReadings :
        LET after == reorderTodoUpdater(todos, todoId, sourcePriority,
                         destinationPriority, sourceIndex, destinationIndex, readings)
        IN  /\ Len(after) = Len(todos)
            /\ \A i \in 1..Len(todos) :
                  /\ after[i].id = todos[i].id
                  /\ todos[i].priority \notin {sourcePriority, destinationPriority} =>
                        after[i] = todos[i]

(* C6's case: three tasks in three quadrants, one of them stamped before  *)
(* the clock moved, so that a drag between two quadrants has a bystander. *)
C6_Witness ==
    /\ Len(todos) = 3
    /\ now = MaxTime
    /\ \A i, j \in 1..3 : i # j => todos[i].priority # todos[j].priority
    /\ \E i \in 1..3 : todos[i].updatedAt < now
    /\ \E i \in 1..3 : todos[i].updatedAt = now /\ todos[i].createdAt < now

(* C7: a same-quadrant reorder of the task at i to j followed by the      *)
(* reorder of that task from j back to i restores the quadrant's ids.     *)
C7_InverseReordersRestoreIds ==
    \A q \in Priorities :
        LET list == getTodosByPriority(q)
            n == Len(list)
        IN  \A i \in 0..(n - 1), j \in 0..(n - 1), readings \in AnyReadings :
                LET todoId == list[i + 1].id
                    there == reorderTodoUpdater(todos, todoId, q, q, i, j, readings)
                    back == reorderTodoUpdater(there, todoId, q, q, j, i, readings)
                IN  IdsOf(QuadrantList(back, q)) = IdsOf(list)

(* C7's case: three tasks of one quadrant after the first was dragged   *)
(* to the end, where dragging it from the end back to the front gives    *)
(* the ids in their order of creation.                                   *)
C7_Witness ==
    \E q \in Priorities :
        LET list == getTodosByPriority(q)
        IN  /\ IdsOf(list) = <<2, 3, 1>>
            /\ OrdersOf(list) = <<0, 1, 2>>
            /\ \A readings \in AnyReadings :
                  IdsOf(QuadrantList(
                      reorderTodoUpdater(todos, 1, q, q, 2, 0, readings), q)) = <<1, 2, 3>>

(* C8: addTodo(data) adds exactly one task, whose order is the maximum  *)
(* order of the tasks of data.priority plus one, or 0 when there is none, *)
(* whose isCompleted is false, whose createdAt equals its updatedAt and   *)
(* whose id is the id of no task of the collection; the tasks that were   *)
(* there are unchanged.                                                   *)
C8_AddTodoStampsBothAlike ==
    \A data \in Drafts, readings \in ClockReadings(2, now) :
        LET after == addTodoUpdater(todos, data, uuids + 1, readings[1], readings[2])
            quadrant == {todos[i] : i \in {j \in 1..Len(todos) :
                                              todos[j].priority = data.priority}}
        IN  /\ Len(after) = Len(todos) + 1
            /\ \A i \in 1..Len(todos) : after[i + 1] = todos[i]
            /\ IF quadrant = {}
               THEN after[1].order = 0
               ELSE /\ \E t \in quadrant : after[1].order = t.order + 1
                    /\ \A t \in quadrant : t.order < after[1].order
            /\ after[1].isCompleted = FALSE
            /\ after[1].createdAt = after[1].updatedAt
            /\ \A i \in 1..Len(todos) : todos[i].id # after[1].id

(* C9: updateTodo(id, fields) gives the task of that id the fields and a *)
(* fresh updatedAt, keeps its other fields, leaves every other task as it *)
(* was, and leaves the collection as it was when no task has that id.     *)
C9_UpdateChangesOnlyTheMatch ==
    \A id \in Ids, data \in Patches, readings \in AnyReadings :
        LET after == updateTodoUpdater(todos, id, data, readings)
        IN  /\ Len(after) = Len(todos)
            /\ \A i \in 1..Len(todos) :
                  IF todos[i].id = id
                  THEN /\ DOMAIN after[i] = DOMAIN todos[i] \cup DOMAIN data
                       /\ \A f \in DOMAIN data : after[i][f] = data[f]
                       /\ \A f \in DOMAIN todos[i] \ (DOMAIN data \cup {"updatedAt"}) :
                             after[i][f] = todos[i][f]
                       /\ after[i].updatedAt = readings[1]
                  ELSE after[i] = todos[i]
            /\ (\A i \in 1..Len(todos) : todos[i].id # id) => after = todos

(* C9's case: after the clock moved, updateTodo gave one of two tasks the *)
(* priority of the other, which is as it was created: both have order 0. *)
C9_Witness ==
    /\ moved
    /\ Len(todos) = 2
    /\ \E i \in 1..2 :
          /\ todos[i].priority = todos[3 - i].priority
          /\ todos[i].order = 0
          /\ todos[3 - i].order = 0
          /\ todos[i].createdAt < todos[i].updatedAt
          /\ todos[3 - i].createdAt = todos[3 - i].updatedAt
          /\ todos[3 - i].updatedAt < todos[i].updatedAt

(* C10: deleteTodo(id) takes the task of that id out of the collection   *)
(* and of its quadrant's list and leaves every other task as it was, its  *)
(* order included; the collection is as it was when no task has that id.  *)
C10_DeleteRemovesOnlyTheMatch ==
    \A id \in Ids :
        LET after == deleteTodoUpdater(todos, id)
            at == {i \in 1..Len(todos) : todos[i].id = id}
        IN  /\ at = {} => after = todos
            /\ \A k \in at : after = Removed(todos, k - 1)
            /\ \A q \in Priorities :
                  LET list == getTodosByPriority(q)
                      inList == {i \in 1..Len(list) : list[i].id = id}
                  IN  /\ inList = {} => QuadrantList(after, q) = list
                      /\ \A k \in inList : QuadrantList(after, q) = Removed(list, k - 1)

(* C10's case: the second of three tasks of one quadrant was deleted and *)
(* the other two have the orders 0 and 2 they had.                        *)
C10_Witness ==
    /\ uuids = 3
    /\ Len(todos) = 2
    /\ \E q \in Priorities :
          /\ IdsOf(getTodosByPriority(q)) = <<1, 3>>
          /\ OrdersOf(getTodosByPriority(q)) = <<0, 2>>

(* C11: toggleTodo(id) negates isCompleted of the task of that id and   *)
(* refreshes its updatedAt, leaves its other fields and every other task  *)
(* as they were; a second toggleTodo(id) restores the first isCompleted.  *)
C11_ToggleNegatesOnlyTheMatch ==
    \A id \in Ids, readings \in AnyReadings, again \in AnyReadings :
        LET after == toggleTodoUpdater(todos, id, readings)
            twice == toggleTodoUpdater(after, id, again)
        IN  /\ Len(after) = Len(todos)
            /\ Len(twice) = Len(todos)
            /\ \A i \in 1..Len(todos) :
                  IF todos[i].id = id
                  THEN /\ after[i].isCompleted = ~todos[i].isCompleted
                       /\ after[i].updatedAt = readings[1]
                       /\ DOMAIN after[i] = DOMAIN todos[i]
                       /\ \A f \in DOMAIN todos[i] \ {"isCompleted", "updatedAt"} :
                             after[i][f] = todos[i][f]
                       /\ twice[i].isCompleted = todos[i].isCompleted
                  ELSE after[i] = todos[i] /\ twice[i] = todos[i]

(* C11's case: of two tasks one was toggled to completed after the clock *)
(* moved and the other is as it was created.                              *)
C11_Witness ==
    /\ Len(todos) = 2
    /\ \E i \in 1..2 :
          /\ todos[i].isCompleted
          /\ todos[i].createdAt < todos[i].updatedAt
          /\ ~todos[3 - i].isCompleted
          /\ todos[3 - i].createdAt = todos[3 - i].updatedAt
          /\ todos[3 - i].updatedAt < todos[i].updatedAt

(* The places <<q, k>> at which the lists of the quadrants hold this id. *)
PlacesOf(id) ==
    {p \in Priorities \X (1..Len(todos)) :
        /\ p[2] <= Len(getTodosByPriority(p[1]))
        /\ getTodosByPriority(p[1])[p[2]].id = id}

(* C12: every id occurs once in the collection and at one place of the   *)
(* lists of the four quadrants, and every task of a list is a task of the *)
(* collection with the list's priority: the lists partition the           *)
(* collection.                                                            *)
C12_QuadrantListsPartition ==
    /\ \A i \in 1..Len(todos), j \in 1..Len(todos) :
          todos[i].id = todos[j].id => i = j
    /\ \A i \in 1..Len(todos) :
          /\ Cardinality(PlacesOf(todos[i].id)) = 1
          /\ \A p \in PlacesOf(todos[i].id) :
                p[1] = todos[i].priority /\ getTodosByPriority(p[1])[p[2]] = todos[i]
    /\ \A q \in Priorities :
          LET list == getTodosByPriority(q)
          IN  \A k \in 1..Len(list) :
                  list[k].priority = q /\ \E i \in 1..Len(todos) : todos[i] = list[k]

(* C12's case: after task 2 was deleted, tasks 1 and 3 are in one        *)
(* quadrant, one of them brought there by updateTodo, and the lists of    *)
(* the other quadrants are empty.                                         *)
C12_Witness ==
    /\ moved
    /\ \E q \in Priorities :
          /\ {todos[i].id : i \in 1..Len(todos)} = {1, 3}
          /\ Len(getTodosByPriority(q)) = 2
          /\ \A other \in Priorities \ {q} : getTodosByPriority(other) = <<>>

-----------------------------------------------------------------------------
(* Properties of the daily tracker and of the dashboard. *)

(* The ids of the sub-tasks of a task. *)
SubTaskIds(todo) == {SubTasksOf(todo)[k].id : k \in 1..Len(SubTasksOf(todo))}

(* Every sub-task id of the task is among these ids. *)
Covers(todo, ids) == \A id \in SubTaskIds(todo) : Includes(ids, id)

(* C13: handleSubTaskToggle(subTaskId, checked) stores isCompleted =     *)
(* true for the day exactly when the task has a sub-task and every        *)
(* sub-task id is in the updated completedSubTasks, whatever the list was *)
(* before and whatever the arguments, a box checked twice included.       *)
C13_ToggleStoresWhetherAllPresent ==
    \A i \in 1..Len(todos), checked \in BOOLEAN :
        \A subTaskId \in SubTaskIds(todos[i]) :
            LET progress == handleSubTaskToggle(todos[i], format(today), subTaskId, checked)
            IN  progress.isCompleted <=>
                    (SubTaskIds(todos[i]) # {} /\ Covers(todos[i], progress.completedSubTasks))

(* C14: for every task with sub-tasks and every date of its              *)
(* dailyProgress, isCompleted is true when completedSubTasks holds every  *)
(* sub-task id.                                                           *)
C14_CoveredDayIsCompleted ==
    \A i \in 1..Len(todos) :
        \A key \in DOMAIN DailyProgressOf(todos[i]) :
            (SubTaskIds(todos[i]) # {}
                /\ Covers(todos[i], DailyProgressOf(todos[i])[key].completedSubTasks))
                => DailyProgressOf(todos[i])[key].isCompleted

(* C14's case: a task of two sub-tasks with one box checked on the first *)
(* day and, on the second, both checked from the last to the first.       *)
C14_Witness ==
    \E i \in 1..Len(todos) :
        LET progress == DailyProgressOf(todos[i])
        IN  /\ DOMAIN progress = {format(1), format(2)}
            /\ progress[format(1)].completedSubTasks = <<"a">>
            /\ ~progress[format(1)].isCompleted
            /\ progress[format(2)].completedSubTasks = <<"b", "a">>
            /\ progress[format(2)].isCompleted

(* The progress records the properties try a save with. *)
AnyProgress ==
    [isCompleted : BOOLEAN, completedSubTasks : {<<>>, <<"a">>}, notes : {""}]

(* What a save of progress for dateKey, built from the task `from`, makes *)
(* of the dailyProgress of task i of the collection.                      *)
SavedOver(i, from, dateKey, progress, readings) ==
    DailyProgressOf(
        updateTodoUpdater(todos, todos[i].id,
            [dailyProgress |-> UpdatedDailyProgress(from, dateKey, progress)],
            readings)[i])

(* The map after is the map before with the entry of dateKey put in.     *)
OnlyDayReplaced(before, after, dateKey, progress) ==
    /\ DOMAIN after = DOMAIN before \cup {dateKey}
    /\ after[dateKey] = progress
    /\ \A key \in DOMAIN before \ {dateKey} : after[key] = before[key]

(* C15: a save by handleSaveDashboardProgress, from the task of the      *)
(* collection, or by handleSaveDailyProgress, from the modal's task,      *)
(* replaces or inserts the entry of dateKey and keeps every other entry   *)
(* of the task's dailyProgress: no date is lost.                          *)
C15_SaveKeepsOtherDays ==
    \A i \in 1..Len(todos), day \in 1..LastTrackedDay, progress \in AnyProgress,
       readings \in AnyReadings :
        /\ OnlyDayReplaced(DailyProgressOf(todos[i]),
               SavedOver(i, todos[i], format(day), progress, readings),
               format(day), progress)
        /\ trackingTodo.id = todos[i].id =>
              OnlyDayReplaced(DailyProgressOf(todos[i]),
                  SavedOver(i, trackingTodo, format(day), progress, readings),
                  format(day), progress)

(* C15's case: the modal, opened on the first day on a task without      *)
(* progress, has saved progress on both days.                             *)
C15_Witness ==
    /\ trackingTodo # NoTodo
    /\ trackingTodo.updatedAt = 0
    /\ DOMAIN DailyProgressOf(trackingTodo) = {format(1), format(2)}
    /\ \E i \in 1..Len(todos) :
          /\ todos[i].id = trackingTodo.id
          /\ todos[i].updatedAt > 0
          /\ DailyProgressOf(todos[i]) = DailyProgressOf(trackingTodo)

(* The day, counted from day 1, that has this key. *)
DayOfKey(key) == CHOOSE day \in -3..10 : format(day) = key

(* The days of a progress that are completed. *)
CompletedDays(progress) ==
    IF progress = Undefined THEN {}
    ELSE {DayOfKey(key) : key \in {k \in DOMAIN progress : progress[k].isCompleted}}

(* The days from first to last are all completed. *)
Run(progress, first, last) == \A day \in first..last : day \in CompletedDays(progress)

(* The progress of the task the dashboard shows. *)
Shown == SelectedDailyProgress(todos[1])

(* C16: calculateCurrentStreak is the length k of the longest run of     *)
(* completed days d, d-1, ..., d-k+1, where d is today when today is      *)
(* completed and yesterday otherwise; it is 0 when d is not completed.    *)
C16_CurrentStreakIsRunEndingAtD ==
    LET k == calculateCurrentStreak(Shown)
        d == IF today \in CompletedDays(Shown) THEN today ELSE today - 1
    IN  /\ k >= 0
        /\ Run(Shown, d - k + 1, d)
        /\ (d - k) \notin CompletedDays(Shown)
        /\ d \notin CompletedDays(Shown) => k = 0

(* C16's case: days 1 and 2 completed, day 3, today, recorded and not    *)
(* completed: the dashboard shows a current streak of 2.                  *)
C16_Witness ==
    /\ today = 3
    /\ CompletedDays(Shown) = {1, 2}
    /\ format(3) \in DOMAIN Shown
    /\ stats.rendered
    /\ stats.currentStreak = 2

(* C17: calculateBestStreak is the length of the longest run of          *)
(* consecutive days among the completed days: 0 when there is none and at *)
(* least 1 otherwise.                                                     *)
C17_BestStreakIsLongestRun ==
    LET best == calculateBestStreak(Shown)
        days == CompletedDays(Shown)
    IN  IF days = {}
        THEN best = 0
        ELSE /\ best >= 1
             /\ \E first \in days : Run(Shown, first, first + best - 1)
             /\ \A first \in days : ~Run(Shown, first, first + best)

(* C17's case: the completed days are 1, 2, 4, 5 and 6 and the           *)
(* dashboard shows a best streak of 3.                                    *)
C17_Witness ==
    /\ CompletedDays(Shown) = {1, 2, 4, 5, 6}
    /\ stats.rendered
    /\ stats.bestStreak = 3

(* The week, Monday to Sunday, a day is in: day 4 is a Monday. *)
WeekOf(day) == (day + 3) \div 7

(* C18: calculateThisWeekCompletions is the number of completed days     *)
(* among the seven days, Monday to Sunday, of the week that today is in;  *)
(* it is between 0 and 7.                                                 *)
C18_ThisWeekCountsTheWeekOfToday ==
    LET count == calculateThisWeekCompletions(Shown)
        days == eachDayOfInterval(startOfWeek(today), endOfWeek(today))
    IN  /\ count = Cardinality({day \in CompletedDays(Shown) : WeekOf(day) = WeekOf(today)})
        /\ count \in 0..7
        /\ Len(days) = 7
        /\ \E i \in 1..7 : days[i] = today
        /\ getDay(days[1]) = 1
        /\ getDay(days[7]) = 0

(* C18's case: today is Monday, day 4; Sunday, day 3, and today are      *)
(* completed and the dashboard shows one completion this week.            *)
C18_Witness ==
    /\ today = 4
    /\ CompletedDays(Shown) = {3, 4}
    /\ stats.rendered
    /\ stats.thisWeek = 1

(* C19: the intensity of a day is 1 when the day is completed, otherwise *)
(* the number of the task's sub-tasks completed that day over the number  *)
(* of its sub-tasks when it has any, otherwise 0; it is within 0..1.      *)
C19_IntensityIsCompletedShare ==
    \A i \in 1..Len(todos), day \in 1..LastTrackedDay :
        LET todo == todos[i]
            key == format(day)
            value == Intensity(todo, key)
            done == {id \in SubTaskIds(todo) : Includes(CompletedSubTaskIds(todo, key), id)}
        IN  /\ IF HasProgressOn(todo, key) /\ DailyProgressOf(todo)[key].isCompleted
               THEN value[1] = value[2]
               ELSE IF SubTaskIds(todo) # {}
                    THEN value[1] * Cardinality(SubTaskIds(todo))
                             = Cardinality(done) * value[2]
                    ELSE value[1] = 0
            /\ value[2] > 0
            /\ 0 <= value[1]
            /\ value[1] <= value[2]

(* C19's case: a task of two sub-tasks with both boxes checked and one   *)
(* cleared again on the first day, and all fulfilled on the second.       *)
C19_Witness ==
    \E i \in 1..Len(todos) :
        /\ HasProgressOn(todos[i], format(1))
        /\ HasProgressOn(todos[i], format(2))
        /\ DailyProgressOf(todos[i])[format(1)].completedSubTasks = <<"b">>
        /\ Intensity(todos[i], format(1)) = <<1, 2>>
        /\ Intensity(todos[i], format(2)) = <<1, 1>>

(* The days whose list is partly checked: not completed, a box checked.  *)
PartialKeys(progress) ==
    IF progress = Undefined THEN {}
    ELSE {key \in DOMAIN progress :
             ~progress[key].isCompleted /\ progress[key].completedSubTasks # <<>>}

(* The progress without the record of a day. *)
Without(progress, key) == [k \in DOMAIN progress \ {key} |-> progress[k]]

(* The progress with nothing but the isCompleted flags. *)
FlagsOnly(progress) ==
    IF progress = Undefined THEN Undefined
    ELSE [k \in DOMAIN progress |-> [isCompleted |-> progress[k].isCompleted]]

(* The three aggregates of a progress. *)
Aggregates(progress) ==
    <<calculateCurrentStreak(progress), calculateBestStreak(progress),
      calculateThisWeekCompletions(progress)>>

(* C20: a day whose list is partly checked has an intensity above 0 and  *)
(* counts for none of the three aggregates, which are those of the        *)
(* progress without the day and those of the isCompleted flags alone.     *)
C20_PartialDayCountsForNothing ==
    /\ \A key \in PartialKeys(Shown) :
          /\ Intensity(todos[1], key)[1] > 0
          /\ Aggregates(Shown) = Aggregates(Without(Shown, key))
    /\ Aggregates(Shown) = Aggregates(FlagsOnly(Shown))

(* C20's case: day 1 completed, day 2 partly checked, today day 3         *)
(* without a record: the dashboard shows no current streak, a best        *)
(* streak of 1 and one completion this week, that of day 1.              *)
C20_Witness ==
    /\ today = 3
    /\ CompletedDays(Shown) = {1}
    /\ PartialKeys(Shown) = {format(2)}
    /\ Intensity(todos[1], format(2)) = <<1, 2>>
    /\ stats.rendered
    /\ stats.currentStreak = 0
    /\ stats.bestStreak = 1
    /\ stats.thisWeek = 1

-----------------------------------------------------------------------------
(* Further properties of the store. *)

(* The list the moved task is put into: the destination quadrant's, and  *)
(* for a move within a quadrant the source list without the task.         *)
ListPutInto(sourcePriority, destinationPriority, sourceIndex) ==
    IF sourcePriority = destinationPriority
    THEN Removed(getTodosByPriority(sourcePriority), sourceIndex)
    ELSE getTodosByPriority(destinationPriority)

(* C23: a reorder that passes the sanity check with a destination index  *)
(* beyond the length of the destination list makes the moved task the    *)
(* last of the list, one with a negative destination index makes it the  *)
(* first, and in both cases the orders of the list are 0..k-1.            *)
C23_OutOfRangeAppendsOrPrepends ==
    \A sourcePriority \in Priorities, destinationPriority \in Priorities :
        LET source == getTodosByPriority(sourcePriority)
        IN  \A sourceIndex \in 0..(Len(source) - 1),
               destinationIndex \in DestinationIndices, readings \in AnyReadings :
                LET todoId == source[sourceIndex + 1].id
                    into == ListPutInto(sourcePriority, destinationPriority, sourceIndex)
                    after == QuadrantList(
                                 reorderTodoUpdater(todos, todoId, sourcePriority,
                                     destinationPriority, sourceIndex, destinationIndex,
                                     readings), destinationPriority)
                IN  /\ destinationIndex > Len(into) =>
                          /\ IdsOf(after) = Append(IdsOf(into), todoId)
                          /\ OrdersOf(after) = Positions(Len(into) + 1)
                    /\ destinationIndex < 0 =>
                          /\ IdsOf(after) = <<todoId>> \o IdsOf(into)
                          /\ OrdersOf(after) = Positions(Len(into) + 1)

(* C24: a reorder within a quadrant that passes the sanity check and has *)
(* its destination index equal to its source index gives the collection  *)
(* as it was, every order and every updatedAt included.                   *)
C24_SamePlaceReorderIsNoOp ==
    \A q \in Priorities :
        LET list == getTodosByPriority(q)
        IN  \A sourceIndex \in 0..(Len(list) - 1), readings \in AnyReadings :
                reorderTodoUpdater(todos, list[sourceIndex + 1].id, q, q,
                    sourceIndex, sourceIndex, readings) = todos

(* todos.filter(t => t.isDaily) *)
DailyTodos(s) == SelectSeq(s, LAMBDA t : IsDaily(t))

(* C25: addTodo(data) with a draft that is daily and has sub-tasks adds a *)
(* daily task with those sub-tasks, which the tracking dashboard is given. *)
C25_AddTodoKeepsDailyFields ==
    \A data \in Drafts, readings \in ClockReadings(2, now) :
        data.isDaily /\ data.subTasks # <<>> =>
            LET after == addTodoUpdater(todos, data, uuids + 1, readings[1], readings[2])
            IN  /\ IsDaily(after[1])
                /\ SubTasksOf(after[1]) = data.subTasks
                /\ \E i \in 1..Len(DailyTodos(after)) : DailyTodos(after)[i].id = uuids + 1

(* The fields of a task that a reorder has no business with. *)
KeptFields(t) == [f \in DOMAIN t \ {"order", "priority", "updatedAt"} |-> t[f]]

(* C26: whatever its arguments, reorderTodo gives a collection of the    *)
(* same size with the same ids, in which every task has every field       *)
(* other than order, priority and updatedAt as it was.                    *)
C26_ReorderKeepsTasks ==
    \A todoId \in Ids, sourcePriority \in Priorities, destinationPriority \in Priorities,
       sourceIndex \in SourceIndices, destinationIndex \in DestinationIndices,
       readings \in AnyReadings :
        LET after == reorderTodoUpdater(todos, todoId, sourcePriority,
                         destinationPriority, sourceIndex, destinationIndex, readings)
        IN  /\ Len(after) = Len(todos)
            /\ {after[i].id : i \in 1..Len(after)} = {todos[i].id : i \in 1..Len(todos)}
            /\ \A i \in 1..Len(todos) : KeptFields(after[i]) = KeptFields(todos[i])

(* C26's case: the daily task with progress was dragged to another       *)
(* quadrant at clock reading 1, beside a task created since, and has its  *)
(* sub-tasks and its progress.                                            *)
C26_Witness ==
    \E i \in 1..Len(todos) :
        /\ todos[i].id = 1
        /\ todos[i].priority # "urgent-important"
        /\ todos[i].updatedAt = 1
        /\ SubTasksOf(todos[i]) = StoredSubTasks
        /\ DOMAIN DailyProgressOf(todos[i]) = {format(1)}
        /\ \E k \in 1..Len(todos) : todos[k].id = 3 /\ todos[k].priority = todos[i].priority

-----------------------------------------------------------------------------
(* Further properties of the daily tracker and of the dashboard. *)

(* No id is at two places of the list. *)
NoIdTwice(ids) == \A j \in 1..Len(ids), k \in 1..Len(ids) : ids[j] = ids[k] => j = k

(* C27: whatever sub-task of the task is toggled, to checked or to       *)
(* unchecked, after whatever toggles came before, the day's               *)
(* completedSubTasks holds no id twice and only ids of the task's         *)
(* sub-tasks, so it is no longer than the list of sub-tasks.              *)
C27_TogglesKeepIdsApart ==
    \A i \in 1..Len(todos), checked \in BOOLEAN :
        \A subTaskId \in SubTaskIds(todos[i]) :
            LET ids == handleSubTaskToggle(todos[i], format(today), subTaskId,
                                           checked).completedSubTasks
            IN  /\ NoIdTwice(ids)
                /\ \A k \in 1..Len(ids) : ids[k] \in SubTaskIds(todos[i])
                /\ Len(ids) <= Len(SubTasksOf(todos[i]))

(* What the checkbox of a sub-task sends for the task as it is rendered. *)
BoxToggle(snapshot, key, subTaskId) ==
    handleSubTaskToggle(snapshot, key, subTaskId,
        ~Includes(CompletedSubTaskIds(snapshot, key), subTaskId))

(* The collection after a save for the day, built from the rendered task. *)
SavedFrom(s, snapshot, key, progress, readings) ==
    updateTodoUpdater(s, snapshot.id,
        [dailyProgress |-> UpdatedDailyProgress(snapshot, key, progress)], readings)

(* C28: when the boxes of two different sub-tasks of a task are toggled   *)
(* and both saves are built from the task as it was rendered before the   *)
(* first of them, the stored list of the day has both toggles in it.      *)
C28_BothSavesOfASnapshotStored ==
    \A i \in 1..Len(todos), readings \in AnyReadings :
        \A a \in SubTaskIds(todos[i]), b \in SubTaskIds(todos[i]) :
            a # b =>
                LET key == format(today)
                    first == BoxToggle(todos[i], key, a)
                    second == BoxToggle(todos[i], key, b)
                    afterFirst == SavedFrom(todos, todos[i], key, first, readings)
                    afterBoth == SavedFrom(afterFirst, todos[i], key, second, readings)
                    ids == CompletedSubTaskIds(afterBoth[i], key)
                IN  /\ Includes(ids, a) <=> Includes(first.completedSubTasks, a)
                    /\ Includes(ids, b) <=> Includes(second.completedSubTasks, b)

(* C29: the current streak is at most the best streak, and the best      *)
(* streak is at most the number of completed dates, whatever the progress *)
(* and whatever day today is.                                             *)
C29_CurrentAtMostBestAtMostCompleted ==
    /\ calculateCurrentStreak(Shown) <= calculateBestStreak(Shown)
    /\ calculateBestStreak(Shown) <= Cardinality(CompletedDays(Shown))

(* C29's case: days 1, 2, 3 and 5 completed and today day 6: the         *)
(* dashboard shows a current streak of 1 and a best streak of 3, of four  *)
(* completed days.                                                        *)
C29_Witness ==
    /\ today = 6
    /\ CompletedDays(Shown) = {1, 2, 3, 5}
    /\ stats.rendered
    /\ stats.currentStreak = 1
    /\ stats.bestStreak = 3

-----------------------------------------------------------------------------
(* Properties of the persistence. *)

(* The item is the JSON text of an array. *)
WellFormed(item) == item.kind = "json" /\ item.value.type = "array"

(* Nothing has happened since useState's initialiser ran. *)
AtStartup == ~isLoaded /\ effectDeps = NoDeps

(* C21: at startup an item that is not the JSON text of an array of      *)
(* tasks, be it unparsable or the text of another value, and a missing    *)
(* item give the empty collection as the initial state.                   *)
C21_MalformedItemGivesEmptyCollection ==
    (AtStartup /\ ~WellFormed(stored)) => (held = "array" /\ todos = <<>>)

(* The item is the JSON text of the collection in memory. *)
InSync == stored = JSONstringify(TodosValue)

(* C22: the collection is read from the item at startup only: a step     *)
(* that changes the item is a write of the collection in memory, made     *)
(* once isLoaded is true, and changes nothing of the collection, so the   *)
(* item is always the initial one or the text of an earlier collection;   *)
(* and once isLoaded is true the item comes to be the text of the         *)
(* collection in memory again, whatever changed the collection.           *)
C22_ItemFollowsCollection ==
    /\ [][stored' # stored =>
             /\ isLoaded
             /\ stored' = JSONstringify(TodosValue)
             /\ todos' = todos
             /\ held' = held]_vars
    /\ isLoaded ~> InSync

(* C22's case: the first task of the stored collection was toggled at     *)
(* clock reading 1 and the effect has written the collection since.       *)
C22_Witness ==
    /\ isLoaded
    /\ Len(todos) = 2
    /\ todos[1].isCompleted /\ todos[1].updatedAt = 1
    /\ "subTasks" \in DOMAIN todos[1]
    /\ InSync

(* C30: the loop of calculateCurrentStreak makes at most one pass more    *)
(* than there are completed entries, comes to its end, and ends on a day  *)
(* without a completed record with the streak calculateCurrentStreak      *)
(* returns.                                                               *)
C30_WalkStops ==
    /\ [](walk.pc # "idle" =>
             walk.iterations <= Cardinality(CompletedDays(Shown)) + 1)
    /\ [](walk.pc = "done" =>
             /\ walk.streak = calculateCurrentStreak(Shown)
             /\ Shown # Undefined => ~IsCompletedOn(Shown, format(walk.checkDate)))
    /\ walk.pc = "loop" ~> walk.pc = "done"

(* C30's case: today and the day before completed and nothing before: the *)
(* loop ended on its third pass.                                          *)
C30_Witness ==
    /\ today = 2
    /\ CompletedDays(Shown) = {1, 2}
    /\ walk.pc = "done"
    /\ walk.iterations = 3
    /\ walk.streak = 2
    /\ walk.checkDate = 0

=============================================================================
